---- MODULE Spec2Model ----
(***************************************************************************)
(* Model of parsergit.py: GitRepository reads the loose objects of a git   *)
(* repository, walks the commits reachable from HEAD, keeps those whose    *)
(* tree mentions a target file and renders the result as a Mermaid graph.  *)
(*                                                                         *)
(* Text is a sequence of tokens.  A token is an indivisible piece of text  *)
(* (a word, an identifier, a number); the separators the code looks for    *)
(* (space, newline, NUL) are tokens of their own, so that partition,       *)
(* split, splitlines, startswith, strip and "in" are computed as the code  *)
(* computes them.                                                          *)
(***************************************************************************)
EXTENDS Integers, Sequences, FiniteSets, TLC

VARIABLES
    head_file,      \* content of .git/HEAD
    ref_files,      \* ref path -> content of .git/<ref path>
    objects,        \* object identifier -> [zok, data]: the files under .git/objects
    target_file,    \* self.target_file
    pc,             \* position of the run: start, walk, collected, filtered, rendered, raised
    queue,          \* collect_commits: the worklist
    visited,        \* collect_commits: the visited set
    commits,        \* self.commits, a dict in insertion order: sequence of commit_data
    printed,        \* the failures collect_commits printed, in order
    parsed,         \* the identifiers handed to parse_commit, in order
    head_reads,     \* number of calls of read_head
    calls,          \* the methods __main__ or a test has called, in order
    raised,         \* the exception that escaped, or NoException
    output          \* the text generate_mermaid returned

vars == <<head_file, ref_files, objects, target_file, pc, queue, visited,
          commits, printed, parsed, head_reads, calls, raised, output>>

env == <<head_file, ref_files, objects, target_file>>

-----------------------------------------------------------------------------
(* Bounds of the model.                                                    *)

NumCommits == 3     \* commit identifiers c1 .. cNumCommits
MaxParents == 2     \* parent lines per commit

-----------------------------------------------------------------------------
(* Tokens and text.                                                        *)

SP  == " "
NL  == "\n"
NUL == "\\0"

\* Python's None, as a value of the model; "None" is not a token of any file.
None == <<"None">>

NoException == "none"

Ok(v)    == [ok |-> TRUE, val |-> v]
Raise(e) == [ok |-> FALSE, err |-> e]

\* Index of the first occurrence of token tok in text, 0 when there is none.
RECURSIVE FindFrom(_, _, _)
FindFrom(text, tok, i) ==
    IF i > Len(text) THEN 0
    ELSE IF text[i] = tok THEN i
    ELSE FindFrom(text, tok, i + 1)

Find(text, tok) == FindFrom(text, tok, 1)

\* str.partition(sep): <<before, sep, after>>, or <<text, "", "">> without sep.
Partition(text, sep) ==
    LET i == Find(text, sep) IN
    IF i = 0 THEN <<text, <<>>, <<>>>>
    ELSE <<SubSeq(text, 1, i - 1), <<sep>>, SubSeq(text, i + 1, Len(text))>>

\* str.split(sep): every piece between separators, empty pieces kept.
RECURSIVE Split(_, _)
Split(text, sep) ==
    LET i == Find(text, sep) IN
    IF i = 0 THEN <<text>>
    ELSE <<SubSeq(text, 1, i - 1)>> \o Split(SubSeq(text, i + 1, Len(text)), sep)

\* str.split(sep, 1): at most two pieces.
Split1(text, sep) ==
    LET i == Find(text, sep) IN
    IF i = 0 THEN <<text>>
    ELSE <<SubSeq(text, 1, i - 1), SubSeq(text, i + 1, Len(text))>>

\* str.splitlines(): the lines without their terminators; no last empty line.
RECURSIVE SplitLines(_)
SplitLines(text) ==
    IF text = <<>> THEN <<>>
    ELSE LET i == Find(text, NL) IN
         IF i = 0 THEN <<text>>
         ELSE <<SubSeq(text, 1, i - 1)>> \o SplitLines(SubSeq(text, i + 1, Len(text)))

\* str.startswith(prefix)
StartsWith(text, prefix) ==
    /\ Len(text) >= Len(prefix)
    /\ SubSeq(text, 1, Len(prefix)) = prefix

IsSpace(tok) == tok \in {SP, NL}

\* str.strip(): leading and trailing whitespace removed.
RECURSIVE LStrip(_)
LStrip(text) ==
    IF text # <<>> /\ IsSpace(text[1]) THEN LStrip(Tail(text)) ELSE text

RECURSIVE RStrip(_)
RStrip(text) ==
    IF text # <<>> /\ IsSpace(text[Len(text)])
    THEN RStrip(SubSeq(text, 1, Len(text) - 1)) ELSE text

Strip(text) == RStrip(LStrip(text))

\* The operator "in" of str: pat occurs in text as a contiguous piece.
Contains(text, pat) ==
    \E i \in 1..(Len(text) - Len(pat) + 1) : SubSeq(text, i, i + Len(pat) - 1) = pat

\* "\n".join(lines)
RECURSIVE Join(_)
Join(lines) ==
    IF lines = <<>> THEN <<>>
    ELSE IF Len(lines) = 1 THEN lines[1]
    ELSE lines[1] \o <<NL>> \o Join(Tail(lines))

-----------------------------------------------------------------------------
(* The repository on disk.                                                 *)

\* A stored file under .git/objects: zok says whether zlib.decompress and
\* the utf-8 decoding succeed, data is the decoded text.
Stored(data) == [zok |-> TRUE, data |-> data]
Corrupt      == [zok |-> FALSE, data |-> <<>>]

\* obj_path.exists() / tree_path.exists(): objects/<hash[:2]>/<hash[2:]>
ObjectExists(hash) == hash \in DOMAIN objects

-----------------------------------------------------------------------------
(* read_head                                                               *)

ReadHead ==
    LET content == Strip(head_file) IN
    IF StartsWith(content, <<"ref:">>)
    THEN LET pieces == Split1(content, SP) IN
         IF Len(pieces) < 2 THEN Raise("IndexError")
         ELSE LET ref_path == pieces[2] IN
              IF ref_path \notin DOMAIN ref_files THEN Raise("FileNotFoundError")
              ELSE Ok(Strip(ref_files[ref_path]))
    ELSE Ok(content)

-----------------------------------------------------------------------------
(* get_commit                                                              *)

\* obj_type, _, content = data.partition("\0")
ObjType(data) == Partition(data, NUL)[1]

ObjContent(data) == Partition(data, NUL)[3]

GetCommit(commit_hash) ==
    IF ~ObjectExists(commit_hash) THEN Raise("FileNotFoundError")
    ELSE IF ~objects[commit_hash].zok THEN Raise("zlib.error")
    ELSE LET data == objects[commit_hash].data IN
         IF ObjType(data) # <<"commit">> THEN Raise("ValueError")
         ELSE Ok(ObjContent(data))

-----------------------------------------------------------------------------
(* parse_commit                                                            *)

\* datetime.utcfromtimestamp(int(t)).strftime('%Y-%m-%d %H:%M:%S') for the
\* numbers that occur in the model's files.
DateOf(t) ==
    CASE t = "1234567890" -> "2009-02-13 23:31:30"
      [] t = "86400"      -> "1970-01-02 00:00:00"
      [] OTHER            -> "1970-01-01 00:00:00"

\* int(text) succeeds
IsInt(text) == Len(text) = 1 /\ text[1] \in {"1234567890", "86400", "0"}

\* The value the loop leaves in author: the name split off the author line
\* is bound to author_name and never stored.
AuthorOf(author_name) == None

\* One pass of the loop body over a line; acc is [tree, parents, author, date].
ParseLine(acc, line) ==
    IF StartsWith(line, <<"tree", SP>>)
    THEN Ok([acc EXCEPT !.tree = Split1(line, SP)[2]])
    ELSE IF StartsWith(line, <<"parent", SP>>)
    THEN Ok([acc EXCEPT !.parents = Append(@, Split1(line, SP)[2])])
    ELSE IF StartsWith(line, <<"author", SP>>)
    THEN LET author_info == Split1(line, SP)[2]
             fields      == Split(author_info, SP)
         IN  IF Len(fields) # 4 THEN Raise("ValueError")
             ELSE IF ~IsInt(fields[3]) THEN Raise("ValueError")
             ELSE Ok([acc EXCEPT !.author = AuthorOf(fields[1]),
                                 !.date = <<DateOf(fields[3][1])>>])
    ELSE Ok(acc)

RECURSIVE ParseLines(_, _)
ParseLines(acc, lines) ==
    IF lines = <<>> THEN Ok(acc)
    ELSE LET r == ParseLine(acc, lines[1]) IN
         IF r.ok THEN ParseLines(r.val, Tail(lines)) ELSE r

ParseCommit(commit_hash) ==
    LET c == GetCommit(commit_hash) IN
    IF ~c.ok THEN c
    ELSE LET r == ParseLines([tree |-> None, parents |-> <<>>,
                              author |-> None, date |-> None],
                             SplitLines(c.val))
         IN  IF ~r.ok THEN r
             ELSE Ok([hash    |-> commit_hash,
                      tree    |-> r.val.tree,
                      parents |-> r.val.parents,
                      author  |-> r.val.author,
                      date    |-> r.val.date])

-----------------------------------------------------------------------------
(* self.commits: a dict in insertion order, as the sequence of its values  *)
(* (every value carries its key in the field hash).                        *)

Keys(d) == {d[i].hash : i \in 1..Len(d)}

Get(d, k) == d[CHOOSE i \in 1..Len(d) : d[i].hash = k]

\* d[k] = v
DictSet(d, k, v) ==
    IF k \in Keys(d)
    THEN [i \in 1..Len(d) |-> IF d[i].hash = k THEN v ELSE d[i]]
    ELSE Append(d, v)

-----------------------------------------------------------------------------
(* file_in_tree, filter_commits_by_file                                    *)

FileInTree(tree_hash, target) ==
    IF tree_hash = None THEN Raise("TypeError")
    ELSE IF ~ObjectExists(tree_hash) THEN Ok(FALSE)
    ELSE IF ~objects[tree_hash].zok THEN Raise("zlib.error")
    ELSE Ok(Contains(objects[tree_hash].data, target))

\* The loop of filter_commits_by_file over the items left to look at.
RECURSIVE FilterLoop(_, _)
FilterLoop(filtered_commits, items) ==
    IF items = <<>> THEN Ok(filtered_commits)
    ELSE LET commit_data == items[1]
             r == FileInTree(commit_data.tree, target_file)
         IN  IF ~r.ok THEN r
             ELSE FilterLoop(IF r.val
                             THEN DictSet(filtered_commits, commit_data.hash, commit_data)
                             ELSE filtered_commits,
                             Tail(items))

-----------------------------------------------------------------------------
(* generate_mermaid                                                        *)

INDENT == "    "

\* The edge drawn from the parent to the commit.
EdgeLine_Reversed(commit_hash, parent) ==
    <<INDENT>> \o parent \o <<SP, "-->", SP>> \o commit_hash

\* f"    {commit_hash} --> {parent}"
EdgeLine(commit_hash, parent) ==
    <<INDENT>> \o commit_hash \o <<SP, "-->", SP>> \o parent

\* f'    {commit_hash}["{commit_hash}\n{author}\n{date}"]'
NodeLine(commit_data) ==
    <<INDENT>> \o commit_data.hash \o <<"[\"">> \o commit_data.hash \o <<NL>>
        \o commit_data.author \o <<NL>> \o commit_data.date \o <<"\"]">>

EdgeLines(commit_data) ==
    [i \in 1..Len(commit_data.parents) |->
        EdgeLine(commit_data.hash, commit_data.parents[i])]

RECURSIVE MermaidLines(_)
MermaidLines(items) ==
    IF items = <<>> THEN <<>>
    ELSE EdgeLines(items[1]) \o <<NodeLine(items[1])>> \o MermaidLines(Tail(items))

Mermaid(d) == Join(<<<<"graph", SP, "TD">>>> \o MermaidLines(d))

-----------------------------------------------------------------------------
(* The repositories the run starts from.  Objects are written the way      *)
(* test.py writes them (create_git_object, create_commit, create_tree);    *)
(* besides the header "<type> <length>\0" of git there is the header       *)
(* "<type>\0" without a length.                                            *)

IdNames == <<"c1", "c2", "c3", "c4", "c5">>

CommitId(i) == <<IdNames[i]>>

CommitIds == {CommitId(i) : i \in 1..NumCommits}

HeadId == CommitId(NumCommits)

DanglingId == <<"c0">>          \* named as a parent, never stored
TreeWithFile == <<"t1">>        \* tree listing test.txt
TreeWithout  == <<"t2">>        \* tree listing other.txt only
FakeTree     == <<"fake_tree_hash">>   \* the tree test.py names and never stores
BlobId       == <<"b1">>

\* header = f"{obj_type} {len(content)}\0"; data = header + content
GitObject(obj_type, content, hdr) ==
    IF hdr = "len"
    THEN <<obj_type, SP, ToString(Len(content)), NUL>> \o content
    ELSE <<obj_type, NUL>> \o content

\* "\n".join(f"{mode} {name}\0{hash_}" for mode, name, hash_ in entries)
TreeContent(entries) ==
    Join([i \in 1..Len(entries) |->
            <<entries[i][1], SP, entries[i][2], NUL>> \o entries[i][3]])

Identity(author) ==
    CASE author = "two"   -> <<"Test", SP, "User", SP, "<test@example.com>", SP, "1234567890", SP, "+0000">>
      [] author = "one"   -> <<"Tester", SP, "<test@example.com>", SP, "1234567890", SP, "+0000">>
      [] author = "badts" -> <<"Tester", SP, "<test@example.com>", SP, "yesterday", SP, "+0000">>

RECURSIVE ParentLines(_)
ParentLines(ps) ==
    IF ps = <<>> THEN <<>>
    ELSE <<"parent", SP>> \o ps[1] \o <<NL>> \o ParentLines(Tail(ps))

\* create_commit, with the tree line left out when shape.tree is FALSE
CommitContent(shape, tree_hash, ps) ==
    (IF shape.tree THEN <<"tree", SP>> \o tree_hash \o <<NL>> ELSE <<>>)
    \o ParentLines(ps)
    \o <<"author", SP>> \o Identity(shape.author) \o <<NL>>
    \o <<"committer", SP>> \o Identity(shape.author) \o <<NL, NL>>
    \o <<"message">>

\* What is stored for a commit identifier: nothing, a file that does not
\* inflate, a blob, or a commit.
Shape(stored, hdr, tree, author) ==
    [stored |-> stored, hdr |-> hdr, tree |-> tree, author |-> author]

Accepted == Shape("commit", "bare", TRUE, "one")

Styles == {Shape("commit", hdr, TRUE, author) :
              hdr \in {"len", "bare"}, author \in {"two", "one"}}

Faults == {"missing", "corrupt", "blob", "notree", "badts"}

Faulty(style, fault) ==
    CASE fault = "missing" -> [style EXCEPT !.stored = "missing"]
      [] fault = "corrupt" -> [style EXCEPT !.stored = "corrupt"]
      [] fault = "blob"    -> [style EXCEPT !.stored = "blob"]
      [] fault = "notree"  -> [style EXCEPT !.tree = FALSE]
      [] fault = "badts"   -> [style EXCEPT !.author = "badts"]

TreePatterns == {"all", "none", "notroot", "fake"}

TreeOf(pat, i) ==
    CASE pat = "all"     -> TreeWithFile
      [] pat = "none"    -> TreeWithout
      [] pat = "notroot" -> IF i = 1 THEN TreeWithout ELSE TreeWithFile
      [] pat = "fake"    -> FakeTree

CommitObject(shape, tree_hash, ps) ==
    CASE shape.stored = "corrupt" -> Corrupt
      [] shape.stored = "blob"    -> Stored(GitObject("blob", <<"Hello,", SP, "World!">>, shape.hdr))
      [] OTHER -> Stored(GitObject("commit", CommitContent(shape, tree_hash, ps), shape.hdr))

FixedObjects ==
    [h \in {TreeWithFile, TreeWithout, BlobId} |->
        CASE h = TreeWithFile -> Stored(GitObject("tree",
                    TreeContent(<<<<"100644", "test.txt", BlobId>>>>), "len"))
          [] h = TreeWithout  -> Stored(GitObject("tree",
                    TreeContent(<<<<"100644", "other.txt", BlobId>>>>), "len"))
          [] h = BlobId       -> Stored(GitObject("blob", <<"Hello,", SP, "World!">>, "len"))]

\* The object store for parents[i], shapes[i] of commit i and a tree pattern.
ObjectStore(parents, shapes, pat) ==
    LET present == {i \in 1..NumCommits : shapes[i].stored # "missing"}
        ix(h) == CHOOSE i \in present : CommitId(i) = h
    IN  [h \in {CommitId(i) : i \in present} |->
            CommitObject(shapes[ix(h)], TreeOf(pat, ix(h)), parents[ix(h)])]
        @@ FixedObjects

MainRef == <<"refs/heads/main">>
DevRef  == <<"refs/heads/dev">>

HeadKinds == {"direct", "ref", "symref", "unborn"}

HeadFile(kind) ==
    IF kind = "direct" THEN HeadId \o <<NL>>
    ELSE <<"ref:", SP>> \o MainRef \o <<NL>>

RefFiles(kind) ==
    CASE kind = "direct" -> (MainRef :> (HeadId \o <<NL>>))
      [] kind = "ref"    -> (MainRef :> (HeadId \o <<NL>>))
      [] kind = "symref" -> (MainRef :> (<<"ref:", SP>> \o DevRef \o <<NL>>))
                            @@ (DevRef :> (HeadId \o <<NL>>))
      [] kind = "unborn" -> (DevRef :> (HeadId \o <<NL>>))

Repo(parents, shapes, pat, kind, target) ==
    [head    |-> HeadFile(kind),
     refs    |-> RefFiles(kind),
     objects |-> ObjectStore(parents, shapes, pat),
     target  |-> target]

SeqsUpTo(S, k) == UNION {[1..m -> S] : m \in 0..k}

\* Commit graphs: the parents of ci are among c1 .. c(i-1); c1 is a root, or
\* names a parent that is not stored, or closes a cycle.
ParentChoices(i) ==
    IF i = 1 THEN {<<>>, <<DanglingId>>, <<CommitId(1)>>, <<HeadId>>}
    ELSE SeqsUpTo({CommitId(j) : j \in 1..(i - 1)}, MaxParents)

RECURSIVE GraphsOf(_)
GraphsOf(n) ==
    IF n = 0 THEN {<<>>}
    ELSE {Append(g, ps) : g \in GraphsOf(n - 1), ps \in ParentChoices(n)}

Graphs == GraphsOf(NumCommits)

Chain == [i \in 1..NumCommits |-> IF i = 1 THEN <<>> ELSE <<CommitId(i - 1)>>]

Merge == [i \in 1..NumCommits |->
            IF i = 1 THEN <<>>
            ELSE IF i = 2 THEN <<CommitId(1)>>
            ELSE <<CommitId(i - 1), CommitId(i - 2)>>]

\* Every graph, all commits stored in the form get_commit and parse_commit accept.
GraphRepos ==
    {Repo(g, [i \in 1..NumCommits |-> Accepted], pat, "direct", <<"test.txt">>) :
        g \in Graphs, pat \in {"notroot", "fake"}}

\* A chain or a merge in one style, with at most one commit at fault.
FormatRepos ==
    {Repo(g, [i \in 1..NumCommits |-> IF i = f[1] THEN Faulty(style, f[2]) ELSE style],
          pat, "ref", target) :
        g \in {Chain, Merge}, style \in Styles,
        f \in ({<<0, "none">>} \cup ((1..NumCommits) \X Faults)),
        pat \in TreePatterns, target \in {<<"test.txt">>, <<"tree">>}}

\* Every form of HEAD over a chain.
HeadRepos ==
    {Repo(Chain, [i \in 1..NumCommits |-> style], "notroot", kind, <<"test.txt">>) :
        style \in Styles, kind \in HeadKinds}

Repos == GraphRepos \cup FormatRepos \cup HeadRepos

-----------------------------------------------------------------------------
(* The run: __main__ constructs the repository object, then calls          *)
(* collect_commits, filter_commits_by_file and generate_mermaid; test.py   *)
(* also renders the collected commits without filtering them.              *)

Init ==
    /\ \E r \in Repos :
          /\ head_file = r.head
          /\ ref_files = r.refs
          /\ objects = r.objects
          /\ target_file = r.target
    /\ pc = "start"
    /\ queue = <<>>
    /\ visited = {}
    /\ commits = <<>>
    /\ printed = <<>>
    /\ parsed = <<>>
    /\ head_reads = 0
    /\ calls = <<>>
    /\ raised = NoException
    /\ output = <<>>

\* The visited test left out: every popped identifier is taken as new.
IsVisited_Never(commit_hash, seen) == FALSE

\* if commit_hash in visited
IsVisited(commit_hash, seen) == commit_hash \in seen

\* collect_commits up to the loop: head_commit = self.read_head(); queue = [head_commit]
CollectStart ==
    /\ pc = "start"
    /\ head_reads' = head_reads + 1
    /\ calls' = Append(calls, "collect_commits")
    /\ LET r == ReadHead IN
       IF r.ok
       THEN /\ queue' = <<r.val>>
            /\ visited' = {}
            /\ pc' = "walk"
            /\ raised' = raised
       ELSE /\ raised' = r.err
            /\ pc' = "raised"
            /\ UNCHANGED <<queue, visited>>
    /\ UNCHANGED <<env, commits, printed, parsed, output>>

\* The loop body without its except clause: a failure leaves collect_commits.
TryParse_NoExcept(commit_hash, rest) ==
    LET r == ParseCommit(commit_hash) IN
    IF r.ok
    THEN /\ commits' = DictSet(commits, commit_hash, r.val)
         /\ queue' = rest \o r.val.parents
         /\ UNCHANGED <<printed, pc, raised>>
    ELSE /\ raised' = r.err
         /\ pc' = "raised"
         /\ UNCHANGED <<commits, queue, printed>>

\* One pass of the loop body for an identifier that was not visited:
\* the try block and its except clause.
TryParse(commit_hash, rest) ==
    LET r == ParseCommit(commit_hash) IN
    IF r.ok
    THEN /\ commits' = DictSet(commits, commit_hash, r.val)
         /\ queue' = rest \o r.val.parents
         /\ UNCHANGED <<printed, pc, raised>>
    ELSE /\ printed' = Append(printed, [hash |-> commit_hash, err |-> r.err])
         /\ queue' = rest
         /\ UNCHANGED <<commits, pc, raised>>

\* One pass of the loop: commit_hash = queue.pop() ...
CollectPop ==
    /\ pc = "walk"
    /\ queue # <<>>
    /\ LET commit_hash == queue[Len(queue)]
           rest        == SubSeq(queue, 1, Len(queue) - 1)
       IN  IF IsVisited(commit_hash, visited)
           THEN /\ queue' = rest
                /\ UNCHANGED <<visited, commits, printed, parsed, pc, raised>>
           ELSE /\ visited' = visited \cup {commit_hash}
                /\ parsed' = Append(parsed, commit_hash)
                /\ TryParse(commit_hash, rest)
    /\ UNCHANGED <<env, head_reads, calls, output>>

\* while queue: ends, collect_commits returns
CollectReturn ==
    /\ pc = "walk"
    /\ queue = <<>>
    /\ pc' = "collected"
    /\ UNCHANGED <<env, queue, visited, commits, printed, parsed, head_reads,
                   calls, raised, output>>

FilterCommitsByFile ==
    /\ pc = "collected"
    /\ LET r == FilterLoop(<<>>, commits) IN
       IF r.ok
       THEN /\ commits' = r.val
            /\ pc' = "filtered"
            /\ raised' = raised
       ELSE /\ raised' = r.err
            /\ pc' = "raised"
            /\ commits' = commits
    /\ calls' = Append(calls, "filter_commits_by_file")
    /\ UNCHANGED <<env, queue, visited, printed, parsed, head_reads, output>>

GenerateMermaid ==
    /\ pc \in {"collected", "filtered"}
    /\ output' = Mermaid(commits)
    /\ pc' = "rendered"
    /\ calls' = Append(calls, "generate_mermaid")
    /\ UNCHANGED <<env, queue, visited, commits, printed, parsed, head_reads, raised>>

Next ==
    \/ CollectStart
    \/ CollectPop
    \/ CollectReturn
    \/ FilterCommitsByFile
    \/ GenerateMermaid

Spec == Init /\ [][Next]_vars

-----------------------------------------------------------------------------
(* What the specification says of a stored record and of a commit payload. *)

\* The header "<type> <byte-length>" in front of the NUL, and its parts.
RecordHeader(data)  == Partition(data, NUL)[1]
RecordPayload(data) == Partition(data, NUL)[3]
HasGitHeader(data)  == Find(data, NUL) > 0 /\ Len(Split(RecordHeader(data), SP)) = 2
RecordType(data)    == Split(RecordHeader(data), SP)[1]

LinesWith(payload, word) ==
    LET lines == SplitLines(payload) IN
    {i \in 1..Len(lines) : StartsWith(lines[i], <<word, SP>>)}

\* The identity after "author ": name words, email, timestamp, timezone.
AuthorFields(payload) ==
    LET lines == SplitLines(payload)
        i == CHOOSE k \in LinesWith(payload, "author") : TRUE
    IN  Split(Split1(lines[i], SP)[2], SP)

\* The name: the identity without its trailing email, timestamp and timezone.
RECURSIVE JoinWords(_)
JoinWords(words) ==
    IF words = <<>> THEN <<>>
    ELSE IF Len(words) = 1 THEN words[1]
    ELSE words[1] \o <<SP>> \o JoinWords(Tail(words))

AuthorName(payload) ==
    LET f == AuthorFields(payload) IN JoinWords(SubSeq(f, 1, Len(f) - 3))

HasAuthorShape(payload) ==
    /\ Cardinality(LinesWith(payload, "author")) = 1
    /\ LET f == AuthorFields(payload) IN Len(f) >= 4 /\ IsInt(f[Len(f) - 1])

\* A stored commit object as git and test.py write it.
WellFormedCommit(hash) ==
    /\ ObjectExists(hash)
    /\ objects[hash].zok
    /\ HasGitHeader(objects[hash].data)
    /\ RecordType(objects[hash].data) = <<"commit">>
    /\ Cardinality(LinesWith(RecordPayload(objects[hash].data), "tree")) = 1
    /\ HasAuthorShape(RecordPayload(objects[hash].data))

AllIds == CommitIds \cup {DanglingId}

-----------------------------------------------------------------------------
(* C1: collect_commits terminates on every commit graph, hands each        *)
(* identifier to parse_commit at most once, and has put an identifier into *)
(* the visited set by the time it decodes it, however many parent lines    *)
(* name it.  Termination is stated with a variant: every pass of the loop  *)
(* either ends the walk or makes WalkMeasure, a natural number, smaller.   *)

C1_DecodedOnce ==
    /\ \A i, j \in 1..Len(parsed) : parsed[i] = parsed[j] => i = j
    /\ \A i \in 1..Len(parsed) : parsed[i] \in visited

\* The identifiers still to be decoded: those of the repository and of the
\* worklist that are not visited.
Unvisited == (AllIds \cup {queue[i] : i \in 1..Len(queue)}) \ visited

WalkMeasure == (MaxParents + 1) * Cardinality(Unvisited) + Len(queue)

C1_Step ==
    /\ C1_DecodedOnce
    /\ C1_DecodedOnce'
    /\ pc = "walk" =>
          \/ pc' = "collected"
          \/ pc' = "walk" /\ WalkMeasure' < WalkMeasure

C1_Theorem == [][C1_Step]_vars

\* Number of parent lines of collected commits that name hash.
ParentRefs(hash) ==
    Cardinality({<<i, k>> \in (1..Len(commits)) \X (1..MaxParents) :
                    k <= Len(commits[i].parents) /\ commits[i].parents[k] = hash})

\* The walk is over and a collected commit was named by two parent lines.
C1_Witness ==
    /\ pc = "collected"
    /\ \E h \in Keys(commits) : ParentRefs(h) >= 2

-----------------------------------------------------------------------------
(* C4: a popped identifier whose reading or decoding fails is reported     *)
(* once, is not added to the mapping, leaves the mapping as it was, and    *)
(* the walk goes on; no failure leaves collect_commits; a HEAD that names  *)
(* no stored record ends the walk with an empty mapping and one report.    *)

C4_FailingPop ==
    /\ pc = "walk"
    /\ queue # <<>>
    /\ queue[Len(queue)] \notin visited
    /\ ~ParseCommit(queue[Len(queue)]).ok

C4_Step ==
    /\ C4_FailingPop =>
          /\ Len(printed') = Len(printed) + 1
          /\ SubSeq(printed', 1, Len(printed)) = printed
          /\ printed'[Len(printed')].hash = queue[Len(queue)]
          /\ commits' = commits
          /\ queue' = SubSeq(queue, 1, Len(queue) - 1)
          /\ pc' = "walk"
    /\ pc = "walk" => (pc' \in {"walk", "collected"} /\ raised' = NoException)
    /\ (pc' = "collected" /\ ~ObjectExists(parsed'[1])) =>
          (commits' = <<>> /\ Len(printed') = 1)

C4_Theorem == [][C4_Step]_vars

\* A failure was reported between two commits that were collected.
C4_Witness ==
    /\ pc = "collected"
    /\ \E i, j, k \in 1..Len(parsed) :
          /\ i < j /\ j < k
          /\ parsed[i] \in Keys(commits)
          /\ parsed[j] \notin Keys(commits)
          /\ \E m \in 1..Len(printed) : printed[m].hash = parsed[j]
          /\ parsed[k] \in Keys(commits)

-----------------------------------------------------------------------------
(* C6: the rendered text has an edge "c --> p" for every retained commit c *)
(* and every parent p it lists, retained or not; it has no other edge (so  *)
(* none from a parent to its child, none out of a commit that is not       *)
(* retained); a retained commit has as many outbound edges as parents.     *)

\* Number of places of text where pat starts.
CountOcc(text, pat) ==
    Cardinality({i \in 1..(Len(text) - Len(pat) + 1) :
                    SubSeq(text, i, i + Len(pat) - 1) = pat})

EdgeText(from, to) == from \o <<SP, "-->", SP>> \o to

ParentSet(commit_data) ==
    {commit_data.parents[k] : k \in 1..Len(commit_data.parents)}

C6_Theorem ==
    pc = "rendered" =>
       /\ \A i \in 1..Len(commits) : \A p \in ParentSet(commits[i]) :
             Contains(output, EdgeText(commits[i].hash, p))
       /\ \A x, y \in AllIds :
             Contains(output, EdgeText(x, y)) =>
                (x \in Keys(commits) /\ y \in ParentSet(Get(commits, x)))
       /\ \A i \in 1..Len(commits) :
             CountOcc(output, commits[i].hash \o <<SP, "-->">>)
                = Len(commits[i].parents)
       /\ \A x \in AllIds \ Keys(commits) : CountOcc(output, x \o <<SP, "-->">>) = 0

\* Rendered after filtering: a retained merge commit with two parents, one
\* of them collected and then filtered out.
C6_Witness ==
    /\ pc = "rendered"
    /\ \E i \in 1..Len(commits) :
          /\ Len(commits[i].parents) = 2
          /\ commits[i].parents[1] # commits[i].parents[2]
          /\ \E p \in ParentSet(commits[i]) : p \notin Keys(commits) /\ p \in CommitIds
          /\ \E p \in ParentSet(commits[i]) : p \in Keys(commits)

-----------------------------------------------------------------------------
(* C2: when collect_commits returns, the keys of the mapping are the       *)
(* identifiers reachable from the resolved HEAD through the parent lines   *)
(* of decoded commits that decode themselves; and a HEAD that resolves to  *)
(* a well-formed stored commit object is among them.                       *)

Elements(seq) == {seq[i] : i \in 1..Len(seq)}

RECURSIVE ReachFrom(_, _)
ReachFrom(frontier, seen) ==
    LET new == frontier \ seen IN
    IF new = {} THEN seen
    ELSE ReachFrom(UNION {Elements(ParseCommit(h).val.parents) :
                            h \in {x \in new : ParseCommit(x).ok}},
                   seen \cup new)

ReachableDecoded ==
    {h \in ReachFrom({ReadHead.val}, {}) : ParseCommit(h).ok}

C2_Claim ==
    pc = "collected" =>
       /\ Keys(commits) = ReachableDecoded
       /\ WellFormedCommit(ReadHead.val) => ReadHead.val \in Keys(commits)

-----------------------------------------------------------------------------
(* C3: of a record "<type> <byte-length>\0<payload>" the reader takes the  *)
(* text before the space as the type: get_commit returns the payload of    *)
(* every such record of type commit and rejects the others.                *)

C3_Claim ==
    \A h \in DOMAIN objects :
       (objects[h].zok /\ HasGitHeader(objects[h].data)) =>
          IF RecordType(objects[h].data) = <<"commit">>
          THEN GetCommit(h) = Ok(RecordPayload(objects[h].data))
          ELSE ~GetCommit(h).ok

-----------------------------------------------------------------------------
(* C5: after filter_commits_by_file a walked commit is in the mapping if   *)
(* and only if the payload of the tree object its tree identifier names    *)
(* contains the target file name; no commit is added.                      *)

Walked == {h \in Elements(parsed) : ParseCommit(h).ok}

TreePayloadHas(hash, target) ==
    LET t == ParseCommit(hash).val.tree IN
    /\ t # None
    /\ ObjectExists(t)
    /\ objects[t].zok
    /\ Contains(RecordPayload(objects[t].data), target)

C5_Claim ==
    pc = "filtered" =>
       /\ Keys(commits) \subseteq Walked
       /\ \A h \in Walked : h \in Keys(commits) <=> TreePayloadHas(h, target_file)

-----------------------------------------------------------------------------
(* C7: on the linear history c1 <- c2 <- c3 of well-formed commits, where  *)
(* the trees of c2 and c3 list the target file and the tree of c1 does     *)
(* not, collecting, filtering and rendering leaves exactly c2 and c3 and   *)
(* renders exactly the edge c3 --> c2.                                     *)

LinearScenario ==
    /\ NumCommits = 3
    /\ \E style \in Styles :
          objects = ObjectStore(Chain, [i \in 1..NumCommits |-> style], "notroot")
    /\ \A h \in CommitIds : WellFormedCommit(h)
    /\ ReadHead = Ok(HeadId)
    /\ target_file = <<"test.txt">>

RenderedEdges ==
    {e \in AllIds \X AllIds : Contains(output, EdgeText(e[1], e[2]))}

C7_Claim ==
    (LinearScenario
        /\ calls = <<"collect_commits", "filter_commits_by_file", "generate_mermaid">>) =>
       /\ Keys(commits) = {CommitId(2), CommitId(3)}
       /\ RenderedEdges = {<<CommitId(3), CommitId(2)>>}

-----------------------------------------------------------------------------
(* C8: a commit whose author line is "author <name> <email> <timestamp>    *)
(* <timezone>", the name of one or several words, is decoded, and the      *)
(* author of its entry in the mapping is the name.                         *)

C8_Claim ==
    pc = "collected" =>
       \A h \in Elements(parsed) :
          (GetCommit(h).ok /\ HasAuthorShape(GetCommit(h).val)) =>
             /\ h \in Keys(commits)
             /\ Get(commits, h).author = AuthorName(GetCommit(h).val)

-----------------------------------------------------------------------------
(* C9: a commit without a tree line is not decoded, so every commit of the *)
(* mapping carries a tree identifier, and filter_commits_by_file does not  *)
(* raise.                                                                  *)

C9_Claim ==
    /\ \A i \in 1..Len(commits) : commits[i].tree # None
    /\ ~(pc = "raised" /\ "filter_commits_by_file" \in Elements(calls))

-----------------------------------------------------------------------------
(* C10: read_head returns HEAD's identifier when HEAD holds one, follows   *)
(* "ref: <path>" through every symbolic reference to an identifier, and    *)
(* returns nothing that begins with "ref:"; collect_commits reads it once, *)
(* as the walk starts.                                                     *)

RECURSIVE Resolve(_, _)
Resolve(content, depth) ==
    IF depth = 0 \/ ~StartsWith(content, <<"ref:">>) THEN content
    ELSE Resolve(Strip(ref_files[Split1(content, SP)[2]]), depth - 1)

C10_Claim ==
    (pc = "walk" /\ parsed = <<>>) =>
       /\ head_reads = 1
       /\ queue = <<Resolve(Strip(head_file), Cardinality(DOMAIN ref_files))>>
       /\ ~StartsWith(queue[1], <<"ref:">>)

====
